---------------------------- MODULE Spec2Model ----------------------------
(***************************************************************************)
(* A model of the proxy server of src/src/lib.rs and of the header         *)
(* functions of src/src/http/headers.rs.                                   *)
(*                                                                         *)
(* Text and bytes are sequences of integers (byte values; the model's      *)
(* texts are ASCII, so a character is its code).  The codes used:          *)
(*   13 CR, 10 LF, 32 space, 58 ':', 45 '-', 47 '/', 72 'H', 111 'o',      *)
(*   115 's', 116 't', 88 'X', 65 'A', 66 'B', 97 'a', 98 'b', 99 'c',     *)
(*   71 'G', 69 'E', 84 'T', 67 'C', 110 'n', 101 'e', 103 'g',            *)
(*   104 'h', 76 'L', 48 '0'.                                              *)
(***************************************************************************)
EXTENDS Integers, Sequences, FiniteSets, TLC

VARIABLES
    h,          \* the state of one run of Handler::handle_proxy
    accepted,   \* dispatch loop: connections taken from listener.incoming()
    queue,      \* worker pool: jobs submitted and not yet started
    running,    \* worker pool: jobs a worker thread is executing
    jobs,       \* per submitted job: its stream, its handler state, its outcome
    pool,       \* worker pool: its size (Builder.threads), whether execute blocks
    submitting, \* dispatch loop: the job it waits in pool.execute with, if any
    inLines,    \* header functions: the lines the raw input is made of
    raw,        \* header functions: the raw header block
    fpc,        \* header functions: which function has been applied
    rewritten,  \* header functions: result of Headers::change_host
    parsed      \* header functions: result of Headers::from_string (its list)

vars == <<h, accepted, queue, running, jobs, pool, submitting,
          inLines, raw, fpc, rewritten, parsed>>

handlerVars  == <<h>>
dispatchVars == <<accepted, queue, running, jobs, pool, submitting>>
headerVars   == <<inLines, raw, fpc, rewritten, parsed>>

-----------------------------------------------------------------------------
(* Bounds of the model *)

\* Most non-empty body chunks the upstream delivers before its stream ends.
MaxChunks == 2
\* Most lines of a raw header block given to the header functions.
MaxLines == 2
\* Most connections the dispatch loop accepts in a run.
MaxConns == 3

-----------------------------------------------------------------------------
(* Program constants *)

CHUNK_SIZE == 1024
THREADS == 4
\* "127.0.0.1:3001"
TARGET_ADDRESS == <<49, 50, 55, 46, 48, 46, 48, 46, 49, 58, 51, 48, 48, 49>>
\* http::CRLF
CRLF == <<13, 10>>

-----------------------------------------------------------------------------
(* Operations on text, as the standard library performs them *)

\* s[a..b], empty when b < a
Slice(s, a, b) == IF b < a THEN <<>> ELSE SubSeq(s, a, b)

\* whether pat occurs in s at index i
OccursAt(s, pat, i) ==
    /\ i >= 1
    /\ i + Len(pat) - 1 <= Len(s)
    /\ \A k \in 1..Len(pat) : s[i + k - 1] = pat[k]

\* the least index >= i at which pat occurs in s, 0 when there is none
FindFrom(s, pat, i) ==
    LET hits == {k \in i..(Len(s) - Len(pat) + 1) : OccursAt(s, pat, k)}
    IN  IF hits = {} THEN 0 ELSE CHOOSE k \in hits : \A m \in hits : k <= m

Contains(s, pat) == FindFrom(s, pat, 1) # 0

\* str::replace: every non-overlapping occurrence of pat (non-empty), left to right
RECURSIVE ReplaceFrom(_, _, _, _)
ReplaceFrom(s, pat, rep, i) ==
    LET k == FindFrom(s, pat, i)
    IN  IF k = 0
        THEN Slice(s, i, Len(s))
        ELSE Slice(s, i, k - 1) \o rep \o ReplaceFrom(s, pat, rep, k + Len(pat))

Replace(s, pat, rep) == ReplaceFrom(s, pat, rep, 1)

\* str::split: the pieces between the occurrences of sep, the last piece included
RECURSIVE SplitFrom(_, _, _)
SplitFrom(s, sep, i) ==
    LET k == FindFrom(s, sep, i)
    IN  IF k = 0
        THEN << Slice(s, i, Len(s)) >>
        ELSE << Slice(s, i, k - 1) >> \o SplitFrom(s, sep, k + Len(sep))

Split(s, sep) == SplitFrom(s, sep, 1)

\* char::to_lowercase on ASCII
LowerChar(c) == IF c >= 65 /\ c <= 90 THEN c + 32 ELSE c

\* str::to_lowercase
ToLowercase(s) == [i \in 1..Len(s) |-> LowerChar(s[i])]

\* a '.' of the regex crate matches any character but LF
NoLF(s) == \A i \in 1..Len(s) : s[i] # 10

-----------------------------------------------------------------------------
(* src/src/http/headers.rs *)

\* Regex "Host: *.*\r\n" tried at index i: the index of the LF ending the
\* match, 0 when it does not match there.  After the literal "Host:" the
\* spaces and the '.'s take everything up to a CR LF, and a '.' takes no LF:
\* the match ends at the first LF after the literal, which a CR must precede.
HostMatchEnd(s, i) ==
    IF ~OccursAt(s, <<72, 111, 115, 116, 58>>, i)
    THEN 0
    ELSE LET p == FindFrom(s, <<10>>, i + 5)
         IN  IF p >= i + 6 /\ s[p - 1] = 13 THEN p ELSE 0

\* Regex::captures: the leftmost match, <<first, last>>, <<0, 0>> when none
HostCaptures(s) ==
    LET starts == {i \in 1..Len(s) : HostMatchEnd(s, i) # 0}
    IN  IF starts = {}
        THEN <<0, 0>>
        ELSE LET i == CHOOSE k \in starts : \A m \in starts : k <= m
             IN  <<i, HostMatchEnd(s, i)>>

\* format!("Host: {}\r\n", target)
HostLine(tgt) == <<72, 111, 115, 116, 58, 32>> \o tgt \o <<13, 10>>

\* Headers::change_host
change_host(heads, tgt) ==
    LET capts == HostCaptures(heads)
    IN  IF capts[1] = 0
        THEN heads
        ELSE LET old_host == SubSeq(heads, capts[1], capts[2])
             IN  Replace(heads, old_host, HostLine(tgt))

\* Regex "^.+: " on one line: the length of the match, 0 when none.  The
\* greedy ".+" takes as much as it can: the match ends at the LAST ": " that
\* has at least one character, and no LF, before it.
NameMatchLen(line) ==
    LET ends == {k \in 2..(Len(line) - 1) :
                    /\ line[k] = 58
                    /\ line[k + 1] = 32
                    /\ NoLF(Slice(line, 1, k - 1))}
    IN  IF ends = {} THEN 0 ELSE (CHOOSE k \in ends : \A m \in ends : k >= m) + 1

\* Regex ": *.*$" on one line: the index where the leftmost match starts, 0
\* when none.  It starts at the FIRST colon from which no LF follows up to the
\* end of the line ("$" is the end of the text).
ValueMatchStart(line) ==
    LET starts == {i \in 1..Len(line) :
                      line[i] = 58 /\ NoLF(Slice(line, i + 1, Len(line)))}
    IN  IF starts = {} THEN 0 ELSE CHOOSE i \in starts : \A m \in starts : i <= m

\* the Header one line gives, << >> for a line that gives none
HeaderOfLine(line) ==
    LET n == NameMatchLen(line)
        v == ValueMatchStart(line)
        name == Replace(Slice(line, 1, n), <<58, 32>>, <<>>)
    IN  IF n = 0
        THEN <<>>
        ELSE IF v = 0
        THEN << [name |-> name, value |-> <<>>] >>
        ELSE << [name |-> name,
                 value |-> ToLowercase(
                     Replace(Slice(line, v, Len(line)), <<58, 32>>, <<>>))] >>

RECURSIVE HeadersOfLines(_)
HeadersOfLines(ls) ==
    IF ls = <<>>
    THEN <<>>
    ELSE HeaderOfLine(Head(ls)) \o HeadersOfLines(Tail(ls))

\* Headers::from_string: the list (raw is kept as given)
from_string(r) == [raw |-> r, list |-> HeadersOfLines(Split(r, CRLF))]

-----------------------------------------------------------------------------
(* The header functions applied to bounded inputs *)

\* The lines raw inputs are made of:
\*   "Host: a"  "Host: b"  "X-Host: a"  "GET /"  "A: B"  "A: b: c"  "A:  B"
\*   "A:b: c"  "A: "
InputLines ==
    { <<72, 111, 115, 116, 58, 32, 97>>,
      <<72, 111, 115, 116, 58, 32, 98>>,
      <<88, 45, 72, 111, 115, 116, 58, 32, 97>>,
      <<71, 69, 84, 32, 47>>,
      <<65, 58, 32, 66>>,
      <<65, 58, 32, 98, 58, 32, 99>>,
      <<65, 58, 32, 32, 66>>,
      <<65, 58, 98, 58, 32, 99>>,
      <<65, 58, 32>> }

\* the sequences of at most n elements of S
RECURSIVE SeqsUpTo(_, _)
SeqsUpTo(S, n) ==
    IF n = 0
    THEN {<<>>}
    ELSE LET shorter == SeqsUpTo(S, n - 1)
         IN  shorter \cup {Append(q, x) : q \in {r \in shorter : Len(r) = n - 1}, x \in S}

\* each line followed by the line terminator
RECURSIVE JoinLines(_)
JoinLines(ls) ==
    IF ls = <<>> THEN <<>> ELSE Head(ls) \o CRLF \o JoinLines(Tail(ls))

HeaderInit ==
    /\ inLines \in SeqsUpTo(InputLines, MaxLines)
    /\ raw = JoinLines(inLines)
    /\ fpc = "input"
    /\ rewritten = <<>>
    /\ parsed = <<>>

\* a call of Headers::change_host(raw, TARGET_ADDRESS)
CallChangeHost ==
    /\ fpc = "input"
    /\ fpc' = "change_host"
    /\ rewritten' = change_host(raw, TARGET_ADDRESS)
    /\ UNCHANGED <<inLines, raw, parsed>>
    /\ UNCHANGED <<handlerVars, dispatchVars>>

\* a call of Headers::from_string(raw)
CallFromString ==
    /\ fpc = "input"
    /\ fpc' = "from_string"
    /\ parsed' = from_string(raw).list
    /\ UNCHANGED <<inLines, raw, rewritten>>
    /\ UNCHANGED <<handlerVars, dispatchVars>>

-----------------------------------------------------------------------------
(* src/src/lib.rs: what one run of handle_proxy does, as a trace of events *)

\* a call on a transport (client or upstream) or another step, and how it went
Ev(op, data, code, ok, note) ==
    [op |-> op, data |-> data, code |-> code, ok |-> ok, note |-> note, msg |-> ""]

\* _log.println(level, msg, ..)
Log(level, msg) ==
    [op |-> "log", data |-> <<>>, code |-> 0, ok |-> TRUE, note |-> level, msg |-> msg]

\* "Content-Length: 0\r\n\r\n".as_bytes()
ZeroLengthTerminator ==
    <<67, 111, 110, 116, 101, 110, 116, 45, 76, 101, 110, 103, 116, 104,
      58, 32, 48, 13, 10, 13, 10>>

\* Builder::new
BuilderNew ==
    [target |-> TARGET_ADDRESS, threads |-> THREADS, chunk_size |-> CHUNK_SIZE]

\* Builder::with_target
with_target(self, target) == [self EXCEPT !.target = target]

\* Builder::with_threads
with_threads(self, n) == [self EXCEPT !.threads = n]

\* Handler::new(config), before handle_proxy has taken a step
HandlerNew(config) ==
    [pc |-> "receive", result |-> "running", config |-> config,
     heads |-> <<>>, heads_n |-> <<>>, nchunks |-> 0, trace |-> <<>>]

\* the join of pieces with sep between them, the inverse of Split
RECURSIVE JoinWith(_, _)
JoinWith(pieces, sep) ==
    IF Len(pieces) = 0 THEN <<>>
    ELSE IF Len(pieces) = 1 THEN pieces[1]
    ELSE pieces[1] \o sep \o JoinWith(Tail(pieces), sep)

\* whether a line begins with the literal token "Host:"
IsHostLine(line) == OccursAt(line, <<72, 111, 115, 116, 58>>, 1)

\* prelude::change_header_host: None (<< >>) when the request has no Host line,
\* else Some (<< text >>) of the request with its first Host line replaced
change_header_host(heads) ==
    LET ls == Split(heads, CRLF)
        hosts == {k \in 1..Len(ls) : IsHostLine(ls[k])}
    IN  IF hosts = {}
        THEN <<>>
        ELSE LET k == CHOOSE i \in hosts : \A m \in hosts : i <= m
                 new == <<72, 111, 115, 116, 58, 32>> \o TARGET_ADDRESS
             IN  << JoinWith([i \in 1..Len(ls) |-> IF i = k THEN new ELSE ls[i]], CRLF) >>

\* the job ends: handle_proxy returns Ok or Err, or panics
Finish(s, result, events) ==
    [s EXCEPT !.pc = "done", !.result = result, !.trace = s.trace \o events]

\* ReceiveRequestNext with the read's error dropped instead of returned
ReceiveRequestNextIgnoreErr(s, In) ==
    LET t0 == <<Log("Info", "handle proxy")>>
    IN  {[s EXCEPT !.pc = "rewrite", !.heads = r,
                   !.trace = s.trace \o t0 \o <<Ev("client_read_to_end", r, 0, TRUE, "")>>]
             : r \in In.requests}
        \cup
        {[s EXCEPT !.pc = "rewrite",
                   !.trace = s.trace \o t0 \o <<Ev("client_read_to_end", <<>>, 0, FALSE, "")>>]
             : f \in In.read \ {TRUE}}

\* lines 132-137: the request is read from the client until its end
ReceiveRequestNext(s, In) ==
    LET t0 == <<Log("Info", "handle proxy")>>
    IN  {[s EXCEPT !.pc = "rewrite", !.heads = r,
                   !.trace = s.trace \o t0 \o <<Ev("client_read_to_end", r, 0, TRUE, "")>>]
             : r \in In.requests}
        \cup
        {Finish(s, "err", t0 \o <<Ev("client_read_to_end", <<>>, 0, FALSE, "")>>)
             : f \in In.read \ {TRUE}}

\* RewriteHostNext without the early return of the missing Host header
RewriteHostNextNoReject(s) ==
    LET heads_n == change_header_host(s.heads)
    IN  IF heads_n = <<>>
        THEN [s EXCEPT !.pc = "connect", !.heads_n = s.heads,
                       !.trace = Append(@, Log("Warn", "Header host is missing"))]
        ELSE [s EXCEPT !.pc = "connect", !.heads_n = heads_n[1]]

\* lines 138-145: the Host header is rewritten, or found missing
RewriteHostNext(s) ==
    LET heads_n == change_header_host(s.heads)
    IN  IF heads_n = <<>>
        THEN [s EXCEPT !.pc = "reject_bad_request",
                       !.trace = Append(@, Log("Warn", "Header host is missing"))]
        ELSE [s EXCEPT !.pc = "connect", !.heads_n = heads_n[1]]

\* lines 141-143: the 400 answer; each call's error ends the run ("?")
RejectBadRequestNext(s, In) ==
    LET status(ok) == Ev("client_set_status", <<>>, 400, ok, "")
        write(ok)  == Ev("client_write", ZeroLengthTerminator, 0, ok, "")
    IN  {Finish(s, "ok", <<status(TRUE), write(TRUE)>>)}
        \cup {Finish(s, "err", <<status(FALSE)>>) : f \in In.io \ {TRUE}}
        \cup {Finish(s, "err", <<status(TRUE), write(FALSE)>>) : f \in In.io \ {TRUE}}

\* ConnectUpstreamNext with a failed connect tried again
ConnectUpstreamNextRetry(s, In) ==
    {IF ok
     THEN [s EXCEPT !.pc = "forward",
                    !.trace = Append(@, Ev("connect", s.config.target, 0, TRUE, ""))]
     ELSE [s EXCEPT !.pc = "connect",
                    !.trace = @ \o <<Ev("connect", s.config.target, 0, FALSE, ""),
                                     Log("Warn", "Failed proxy")>>]
         : ok \in In.connect}

\* lines 147-149: one connection to the target is opened
ConnectUpstreamNext(s, In) ==
    {IF ok
     THEN [s EXCEPT !.pc = "forward",
                    !.trace = Append(@, Ev("connect", s.config.target, 0, TRUE, ""))]
     ELSE [s EXCEPT !.pc = "reject_bad_gateway",
                    !.trace = @ \o <<Ev("connect", s.config.target, 0, FALSE, ""),
                                     Log("Warn", "Failed proxy")>>]
         : ok \in In.connect}

\* lines 150-154: the 502 answer, flushed, then the delay
RejectBadGatewayNext(s, In) ==
    LET status(ok) == Ev("client_set_status", <<>>, 502, ok, "")
        write(ok)  == Ev("client_write", ZeroLengthTerminator, 0, ok, "")
        flush(ok)  == Ev("client_flush", <<>>, 0, ok, "")
        sleep      == Ev("sleep", <<>>, 100, TRUE, "")
    IN  {Finish(s, "ok", <<status(TRUE), write(TRUE), flush(TRUE), sleep>>)}
        \cup {Finish(s, "err", <<status(FALSE)>>) : f \in In.io \ {TRUE}}
        \cup {Finish(s, "err", <<status(TRUE), write(FALSE)>>) : f \in In.io \ {TRUE}}
        \cup {Finish(s, "err", <<status(TRUE), write(TRUE), flush(FALSE)>>)
                 : f \in In.io \ {TRUE}}

\* lines 156-159: the rewritten request is written to the upstream
ForwardRequestNext(s, In) ==
    LET t0 == <<Log("Info", "write headers to target")>>
    IN  {IF ok
         THEN [s EXCEPT !.pc = "relay",
                        !.trace = @ \o t0 \o <<Ev("upstream_write", s.heads_n, 0, TRUE, "")>>]
         ELSE Finish(s, "err", t0 \o <<Ev("upstream_write", s.heads_n, 0, FALSE, "")>>)
             : ok \in In.io}

\* a UTF-8 continuation byte
IsCont(b, i) == i <= Len(b) /\ b[i] >= 128 /\ b[i] <= 191

\* str::from_utf8 accepts the bytes from index i on
RECURSIVE IsUtf8From(_, _)
IsUtf8From(b, i) ==
    IF i > Len(b) THEN TRUE
    ELSE LET x == b[i]
             y == IF i + 1 <= Len(b) THEN b[i + 1] ELSE 0
         IN  IF x < 128 THEN IsUtf8From(b, i + 1)
             ELSE IF x >= 194 /\ x <= 223
             THEN IsCont(b, i + 1) /\ IsUtf8From(b, i + 2)
             ELSE IF x >= 224 /\ x <= 239
             THEN /\ IsCont(b, i + 1) /\ IsCont(b, i + 2)
                  /\ (x = 224 => y >= 160)
                  /\ (x = 237 => y <= 159)
                  /\ IsUtf8From(b, i + 3)
             ELSE IF x >= 240 /\ x <= 244
             THEN /\ IsCont(b, i + 1) /\ IsCont(b, i + 2) /\ IsCont(b, i + 3)
                  /\ (x = 240 => y >= 144)
                  /\ (x = 244 => y <= 143)
                  /\ IsUtf8From(b, i + 4)
             ELSE FALSE

\* str::from_utf8(&h).is_ok()
IsUtf8(b) == IsUtf8From(b, 1)

\* lines 160-168: the response preamble is read from the upstream until its
\* end, decoded for the log line (a panic when it is not UTF-8), and written
\* to the client (a panic when the write fails)
RelayResponseHeadersNext(s, In) ==
    LET read(p, ok) == Ev("upstream_read_to_end", p, 0, ok, "")
        t1 == <<Log("Info", "send headers to client")>>
    IN  {Finish(s, "err", <<read(<<>>, FALSE)>>) : f \in In.io \ {TRUE}}
        \cup
        {Finish(s, "panic", <<read(p, TRUE)>>) : p \in {q \in In.preambles : ~IsUtf8(q)}}
        \cup
        {IF ok
         THEN [s EXCEPT !.pc = "stream",
                        !.trace = @ \o <<read(p, TRUE)>> \o t1
                                    \o <<Ev("client_write", p, 0, TRUE, "preamble")>>]
         ELSE Finish(s, "panic", <<read(p, TRUE)>> \o t1
                                    \o <<Ev("client_write", p, 0, FALSE, "preamble")>>)
             : p \in {q \in In.preambles : IsUtf8(q)}, ok \in In.io}

\* line 171: let mut b = [0; CHUNK_SIZE]
ChunkBuffer(s) == [i \in 1..CHUNK_SIZE |-> 0]

\* Http::read(&mut b): the bytes read are the first of b, the others stay;
\* an error leaves b as it was
HttpRead(b, r) ==
    IF r.kind = "data"
    THEN [i \in 1..Len(b) |-> IF i <= Len(r.bytes) THEN r.bytes[i] ELSE b[i]]
    ELSE b

\* lines 174-177: the level a read error is logged at
ReadErrorLevel(kind) == IF kind = "ConnectionReset" THEN "Info" ELSE "Error"

\* NonZero with the filter left out: the whole buffer
KeepAll(b) == b

\* lines 180-187: the non-zero bytes of b, in order
NonZero(b) == SelectSeq(b, LAMBDA x : x # 0)

\* what the upstream may answer to a read into b after nchunks chunks: at most
\* Len(b) bytes, and past MaxChunks chunks that were forwarded only what ends
\* the loop (the body is finite)
ReadResults(In, b, nchunks) ==
    {r \in In.chunks :
        /\ Len(r.bytes) <= Len(b)
        /\ (nchunks >= MaxChunks => \A i \in 1..Len(r.bytes) : r.bytes[i] = 0)}

\* lines 170-192: one turn of the body loop
StreamBodyNext(s, In) ==
    LET b0 == ChunkBuffer(s)
        turn(r, ok) ==
            LET b == HttpRead(b0, r)
                read == Ev("upstream_read", r.bytes, Len(b0), r.kind = "data", r.kind)
                logs == IF r.kind = "data"
                        THEN <<>>
                        ELSE <<Log(ReadErrorLevel(r.kind), "Failed read chunk")>>
                buf == NonZero(b)
                write == Ev("client_write", buf, 0, ok, "chunk")
            IN  IF Len(buf) = 0
                THEN Finish(s, "ok", <<read>> \o logs)
                ELSE IF ok
                THEN [s EXCEPT !.nchunks = @ + 1,
                               !.trace = @ \o <<read>> \o logs \o <<write>>]
                ELSE Finish(s, "panic", <<read>> \o logs \o <<write>>)
    IN  {turn(r, ok) : r \in ReadResults(In, b0, s.nchunks), ok \in In.io}

-----------------------------------------------------------------------------
(* One run of handle_proxy *)

\* chunk_size values a Builder is given (the field is public)
ChunkSizes == {2, CHUNK_SIZE}

Data(bytes) == [kind |-> "data", bytes |-> bytes]
ReadError(kind) == [kind |-> kind, bytes |-> <<>>]

\* The requests a client sends:
\*   "GET /\r\nHost: a\r\n\r\n"   "GET /\r\n\r\n"   "GET /\r\nA: B\r\n\r\n"
\* the response preambles an upstream sends: empty, "H", "H\0", "e-acute",
\* a truncated character, a byte no UTF-8 text holds;
\* and what a read of the body gives: the end of the stream, zero bytes only,
\* bytes without and with zero bytes among them, a reset, another error.
FullInputs ==
    [requests |->
        { <<71, 69, 84, 32, 47, 13, 10, 72, 111, 115, 116, 58, 32, 97, 13, 10, 13, 10>>,
          <<71, 69, 84, 32, 47, 13, 10, 13, 10>>,
          <<71, 69, 84, 32, 47, 13, 10, 65, 58, 32, 66, 13, 10, 13, 10>> },
     preambles |-> { <<>>, <<72>>, <<72, 0>>, <<195, 169>>, <<195>>, <<255>> },
     chunks |-> { Data(<<>>), Data(<<0>>), Data(<<0, 0>>), Data(<<7>>),
                  Data(<<7, 9>>), Data(<<9, 0, 7>>),
                  ReadError("ConnectionReset"), ReadError("TimedOut") },
     read |-> BOOLEAN,
     connect |-> BOOLEAN,
     io |-> BOOLEAN]

\* The targets a builder is given: the default, and "u:2" set by with_target
Targets == {TARGET_ADDRESS, <<117, 58, 50>>}

HandlerInit ==
    h \in {HandlerNew([with_target(BuilderNew, t) EXCEPT !.chunk_size = c]) :
              t \in Targets, c \in ChunkSizes}

ReceiveRequest ==
    /\ h.pc = "receive"
    /\ h' \in ReceiveRequestNext(h, FullInputs)
    /\ UNCHANGED <<dispatchVars, headerVars>>

RewriteHost ==
    /\ h.pc = "rewrite"
    /\ h' = RewriteHostNext(h)
    /\ UNCHANGED <<dispatchVars, headerVars>>

RejectBadRequest ==
    /\ h.pc = "reject_bad_request"
    /\ h' \in RejectBadRequestNext(h, FullInputs)
    /\ UNCHANGED <<dispatchVars, headerVars>>

ConnectUpstream ==
    /\ h.pc = "connect"
    /\ h' \in ConnectUpstreamNext(h, FullInputs)
    /\ UNCHANGED <<dispatchVars, headerVars>>

RejectBadGateway ==
    /\ h.pc = "reject_bad_gateway"
    /\ h' \in RejectBadGatewayNext(h, FullInputs)
    /\ UNCHANGED <<dispatchVars, headerVars>>

ForwardRequest ==
    /\ h.pc = "forward"
    /\ h' \in ForwardRequestNext(h, FullInputs)
    /\ UNCHANGED <<dispatchVars, headerVars>>

RelayResponseHeaders ==
    /\ h.pc = "relay"
    /\ h' \in RelayResponseHeadersNext(h, FullInputs)
    /\ UNCHANGED <<dispatchVars, headerVars>>

StreamBody ==
    /\ h.pc = "stream"
    /\ h' \in StreamBodyNext(h, FullInputs)
    /\ UNCHANGED <<dispatchVars, headerVars>>

-----------------------------------------------------------------------------
(* The dispatch loop of Builder::bind and the worker pool *)

\* the step of handle_proxy a handler state is at
HandlerSucc(s, In) ==
    CASE s.pc = "receive"            -> ReceiveRequestNext(s, In)
      [] s.pc = "rewrite"            -> {RewriteHostNext(s)}
      [] s.pc = "reject_bad_request" -> RejectBadRequestNext(s, In)
      [] s.pc = "connect"            -> ConnectUpstreamNext(s, In)
      [] s.pc = "reject_bad_gateway" -> RejectBadGatewayNext(s, In)
      [] s.pc = "forward"            -> ForwardRequestNext(s, In)
      [] s.pc = "relay"              -> RelayResponseHeadersNext(s, In)
      [] s.pc = "stream"             -> StreamBodyNext(s, In)
      [] OTHER                       -> {}

\* what the connections of a dispatch run bring: a request that cannot be
\* read, one with and one without a Host line, a preamble that is text and
\* one that is not, an empty body
DispatchInputs ==
    [requests |->
        { <<71, 69, 84, 32, 47, 13, 10, 72, 111, 115, 116, 58, 32, 97, 13, 10, 13, 10>>,
          <<71, 69, 84, 32, 47, 13, 10, 13, 10>> },
     preambles |-> { <<72>>, <<255>> },
     chunks |-> { Data(<<>>) },
     read |-> BOOLEAN,
     connect |-> {TRUE},
     io |-> {TRUE}]

\* listener.incoming() yields a connection or an error
Streams == {"ok", "err"}

\* thread counts a Builder is given (with_threads)
ThreadCounts == {1, THREADS}

Finished(j) == jobs[j].outcome \in {"returned", "panicked"}

\* ThreadPool::new(n): a pool of n worker threads. Whether a pool with no
\* free worker queues a submitted job or holds the caller of execute until a
\* worker is free is left open (spec 5), so a pool is of either kind.
ThreadPoolNew(n) == {[threads |-> n, blocking |-> b] : b \in BOOLEAN}

\* ThreadPool::execute returns: at once from a pool that queues, once a worker
\* is free for the job from a pool that blocks
ExecuteReturns ==
    \/ ~pool.blocking
    \/ Cardinality(running) + Len(queue) < pool.threads

\* ThreadPool::execute: the job waits for a worker behind the jobs submitted
\* before it
ThreadPoolExecute(q, j) == Append(q, j)

\* ThreadPool worker: its job over, returned or panicked, the thread is free
\* for the next job (spec 4.4: the pool isolates the failure of a job)
WorkerRelease(r, j) == r \ {j}

DispatchInit ==
    /\ \E n \in ThreadCounts : pool \in ThreadPoolNew(with_threads(BuilderNew, n).threads)
    /\ accepted = 0
    /\ queue = <<>>
    /\ running = {}
    /\ jobs = <<>>
    /\ submitting = <<>>

\* AcceptReady of a loop that waits for the jobs it submitted
AcceptReadyAwait ==
    /\ accepted < MaxConns
    /\ submitting = <<>>
    /\ \A j \in 1..Len(jobs) : Finished(j)

\* line 111: the head of the loop, for stream in listener.incoming(): the loop
\* is there when the execute of the turn before has returned, and the next
\* item is taken with no condition on the jobs submitted before
AcceptReady ==
    /\ accepted < MaxConns
    /\ submitting = <<>>

\* lines 112-116: the Handler of the connection and the closure given to
\* pool.execute, which holds the stream and both expect calls
JobNew(st) ==
    [stream |-> st,
     hs |-> HandlerNew(with_threads(BuilderNew, pool.threads)),
     outcome |-> "queued"]

\* lines 111-117: one turn of the loop: an item is taken from incoming(), its
\* Handler is made and pool.execute is called with the closure; the turn is
\* over when execute returns, and until then the loop waits in execute
Accept ==
    /\ AcceptReady
    /\ \E st \in Streams :
          /\ accepted' = accepted + 1
          /\ IF ExecuteReturns
             THEN /\ jobs' = Append(jobs, JobNew(st))
                  /\ queue' = ThreadPoolExecute(queue, Len(jobs) + 1)
                  /\ UNCHANGED submitting
             ELSE /\ submitting' = <<JobNew(st)>>
                  /\ UNCHANGED <<jobs, queue>>
    /\ UNCHANGED <<running, pool>>
    /\ UNCHANGED <<handlerVars, headerVars>>

\* line 113: the pool.execute the loop waits in returns: the pool has taken
\* the job
ExecuteReturn ==
    /\ submitting # <<>>
    /\ ExecuteReturns
    /\ jobs' = Append(jobs, submitting[1])
    /\ queue' = ThreadPoolExecute(queue, Len(jobs) + 1)
    /\ submitting' = <<>>
    /\ UNCHANGED <<accepted, running, pool>>
    /\ UNCHANGED <<handlerVars, headerVars>>

\* ThreadPool: a free worker thread takes the oldest submitted job
PoolStart ==
    /\ queue # <<>>
    /\ Cardinality(running) < pool.threads
    /\ running' = running \cup {Head(queue)}
    /\ queue' = Tail(queue)
    /\ jobs' = [jobs EXCEPT ![Head(queue)].outcome = "running"]
    /\ UNCHANGED <<accepted, pool, submitting>>
    /\ UNCHANGED <<handlerVars, headerVars>>

\* line 114: stream.expect("Error in incoming stream") panics inside the job;
\* the closure is over and the pool has its worker back
JobStreamError(j) ==
    /\ j \in running
    /\ jobs[j].stream = "err"
    /\ jobs' = [jobs EXCEPT ![j].outcome = "panicked"]
    /\ running' = WorkerRelease(running, j)
    /\ UNCHANGED <<accepted, queue, pool, submitting>>
    /\ UNCHANGED <<handlerVars, headerVars>>

\* line 114: cl.handle_proxy(stream) takes a step
JobHandle(j) ==
    /\ j \in running
    /\ jobs[j].stream = "ok"
    /\ jobs[j].hs.pc # "done"
    /\ \E s2 \in HandlerSucc(jobs[j].hs, DispatchInputs) :
          jobs' = [jobs EXCEPT ![j].hs = s2]
    /\ UNCHANGED <<accepted, queue, running, pool, submitting>>
    /\ UNCHANGED <<handlerVars, headerVars>>

\* lines 114-115: handle_proxy is over; .expect("Failed handle proxy") panics
\* on its Err; the closure is over and the pool has its worker back
JobEnd(j) ==
    /\ j \in running
    /\ jobs[j].stream = "ok"
    /\ jobs[j].hs.pc = "done"
    /\ jobs' = [jobs EXCEPT ![j].outcome =
                   IF jobs[j].hs.result = "ok" THEN "returned" ELSE "panicked"]
    /\ running' = WorkerRelease(running, j)
    /\ UNCHANGED <<accepted, queue, pool, submitting>>
    /\ UNCHANGED <<handlerVars, headerVars>>

-----------------------------------------------------------------------------
(* Specifications *)

HandlerIdle == h = HandlerNew(BuilderNew)

DispatchIdle ==
    /\ pool = [threads |-> THREADS, blocking |-> FALSE]
    /\ accepted = 0
    /\ queue = <<>>
    /\ running = {}
    /\ jobs = <<>>
    /\ submitting = <<>>

HeaderIdle ==
    /\ inLines = <<>>
    /\ raw = <<>>
    /\ fpc = "idle"
    /\ rewritten = <<>>
    /\ parsed = <<>>

\* one run of handle_proxy
Init == HandlerInit /\ DispatchIdle /\ HeaderIdle

Next ==
    \/ ReceiveRequest
    \/ RewriteHost
    \/ RejectBadRequest
    \/ ConnectUpstream
    \/ RejectBadGateway
    \/ ForwardRequest
    \/ RelayResponseHeaders
    \/ StreamBody

Spec == Init /\ [][Next]_vars

\* the dispatch loop with its jobs
InitDispatch == HandlerIdle /\ DispatchInit /\ HeaderIdle

NextDispatch ==
    \/ Accept
    \/ ExecuteReturn
    \/ PoolStart
    \/ \E j \in 1..MaxConns : JobStreamError(j)
    \/ \E j \in 1..MaxConns : JobHandle(j)
    \/ \E j \in 1..MaxConns : JobEnd(j)

SpecDispatch == InitDispatch /\ [][NextDispatch]_vars

\* the header functions
InitHeaders == HandlerIdle /\ DispatchIdle /\ HeaderInit

NextHeaders == CallChangeHost \/ CallFromString

SpecHeaders == InitHeaders /\ [][NextHeaders]_vars

-----------------------------------------------------------------------------
(* Reading a trace *)

\* the calls made on the client transport after the request was read
ClientCalls(t) ==
    SelectSeq(t, LAMBDA e : e.op \in {"client_set_status", "client_write", "client_flush"})

Events(t, op) == SelectSeq(t, LAMBDA e : e.op = op)

\* the event is a call of op with this code and this data
IsCall(e, op, code, data) == e.op = op /\ e.code = code /\ e.data = data

\* the request read has no line that begins with "Host:"
NoHostHeader(heads) ==
    \A k \in 1..Len(Split(heads, CRLF)) : ~IsHostLine(Split(heads, CRLF)[k])

\* the request was read, and it has no Host header
MissingHostRun ==
    /\ \E i \in 1..Len(h.trace) : h.trace[i].op = "client_read_to_end" /\ h.trace[i].ok
    /\ NoHostHeader(h.heads)
    /\ h.pc \notin {"receive", "rewrite"}

\* the index of the failed connect of the run, 0 when there is none
FailedConnect ==
    LET at == {i \in 1..Len(h.trace) : h.trace[i].op = "connect" /\ ~h.trace[i].ok}
    IN  IF at = {} THEN 0 ELSE CHOOSE i \in at : \A m \in at : i <= m

\* the zero bytes of a chunk left out, one byte at a time
RECURSIVE StripZeros(_)
StripZeros(bytes) ==
    IF bytes = <<>> THEN <<>>
    ELSE IF Head(bytes) = 0 THEN StripZeros(Tail(bytes))
    ELSE <<Head(bytes)>> \o StripZeros(Tail(bytes))

\* what the chunks read ask to be forwarded: the non-zero bytes of each chunk
\* before the first chunk that has none
RECURSIVE Forwarded(_)
Forwarded(reads) ==
    IF reads = <<>> THEN <<>>
    ELSE IF StripZeros(Head(reads).data) = <<>> THEN <<>>
    ELSE <<StripZeros(Head(reads).data)>> \o Forwarded(Tail(reads))

BodyReads == Events(h.trace, "upstream_read")

BodyWrites ==
    LET ws == SelectSeq(h.trace, LAMBDA e : e.op = "client_write" /\ e.note = "chunk")
    IN  [i \in 1..Len(ws) |-> ws[i].data]

-----------------------------------------------------------------------------
(* Claims about one run of handle_proxy (Spec) *)

Status400(ok) == Ev("client_set_status", <<>>, 400, ok, "")
Status502(ok) == Ev("client_set_status", <<>>, 502, ok, "")
Terminator(ok) == Ev("client_write", ZeroLengthTerminator, 0, ok, "")
Flush(ok) == Ev("client_flush", <<>>, 0, ok, "")
Delay == Ev("sleep", <<>>, 100, TRUE, "")

\* C1, as claimed: in every run whose request has no Host header, status 400
\* is set and then exactly "Content-Length: 0\r\n\r\n" is written to the
\* client by the time the job ends, and no upstream connection is attempted.
C1_Original ==
    MissingHostRun =>
        /\ Events(h.trace, "connect") = <<>>
        /\ h.pc = "done" =>
              LET cc == ClientCalls(h.trace)
              IN  /\ Len(cc) = 2
                  /\ IsCall(cc[1], "client_set_status", 400, <<>>)
                  /\ IsCall(cc[2], "client_write", 0, ZeroLengthTerminator)

\* C1, amended: in every run whose request has no Host header no upstream
\* connection is attempted, and the job ends either Ok after status 400 and
\* then exactly the zero-length terminator were sent, or with the error of the
\* first of these two calls that failed, nothing being sent after it.
C1_Amended ==
    MissingHostRun =>
        /\ Events(h.trace, "connect") = <<>>
        /\ Events(h.trace, "upstream_write") = <<>>
        /\ h.pc # "done" => h.pc = "reject_bad_request" /\ ClientCalls(h.trace) = <<>>
        /\ h.pc = "done" =>
              \/ /\ h.result = "ok"
                 /\ ClientCalls(h.trace) = <<Status400(TRUE), Terminator(TRUE)>>
              \/ /\ h.result = "err"
                 /\ ClientCalls(h.trace) \in
                        { <<Status400(FALSE)>>, <<Status400(TRUE), Terminator(FALSE)>> }

C1_Witness ==
    /\ MissingHostRun
    /\ h.pc = "done"
    /\ h.result = "ok"
    /\ ClientCalls(h.trace) = <<Status400(TRUE), Terminator(TRUE)>>

\* C2, as claimed: in every run whose upstream connect fails, the job ends
\* after status 502, the zero-length terminator, a flush and the delay, in
\* this order; the connect is attempted once, no request byte is forwarded and
\* no body is streamed.
C2_Original ==
    FailedConnect # 0 =>
        /\ Len(Events(h.trace, "connect")) = 1
        /\ Events(h.trace, "upstream_write") = <<>>
        /\ BodyReads = <<>> /\ BodyWrites = <<>>
        /\ h.pc = "done" =>
              LET after == SubSeq(h.trace, FailedConnect + 2, Len(h.trace))
              IN  /\ Len(after) = 4
                  /\ IsCall(after[1], "client_set_status", 502, <<>>)
                  /\ IsCall(after[2], "client_write", 0, ZeroLengthTerminator)
                  /\ IsCall(after[3], "client_flush", 0, <<>>)
                  /\ IsCall(after[4], "sleep", 100, <<>>)

\* C2, amended: in every run whose upstream connect fails, the connect is
\* attempted once, no request byte is forwarded, no body is streamed, and the
\* job ends either Ok after status 502, the zero-length terminator, a flush and
\* the 100 ms delay, in this order, or at the first of the three client calls
\* that fails, with its error and without the delay.
C2_Amended ==
    FailedConnect # 0 =>
        LET after == SubSeq(h.trace, FailedConnect + 1, Len(h.trace))
        IN  /\ Len(Events(h.trace, "connect")) = 1
            /\ Events(h.trace, "upstream_write") = <<>>
            /\ Events(h.trace, "upstream_read_to_end") = <<>>
            /\ BodyReads = <<>> /\ BodyWrites = <<>>
            /\ Head(after) = Log("Warn", "Failed proxy")
            /\ h.pc # "done" => h.pc = "reject_bad_gateway" /\ Len(after) = 1
            /\ h.pc = "done" =>
                  \/ /\ h.result = "ok"
                     /\ Tail(after) =
                            <<Status502(TRUE), Terminator(TRUE), Flush(TRUE), Delay>>
                  \/ /\ h.result = "err"
                     /\ Tail(after) \in
                            { <<Status502(FALSE)>>,
                              <<Status502(TRUE), Terminator(FALSE)>>,
                              <<Status502(TRUE), Terminator(TRUE), Flush(FALSE)>> }

C2_Witness ==
    /\ FailedConnect # 0
    /\ h.pc = "done"
    /\ h.result = "ok"
    /\ h.trace[Len(h.trace)] = Delay
    /\ h.trace[Len(h.trace) - 1] = Flush(TRUE)

\* C3, as claimed: whatever bytes the response preamble read from the
\* upstream holds, exactly those bytes are written to the client, before any
\* body chunk is.
C3_Claim ==
    \A i \in 1..Len(h.trace) :
        (h.trace[i].op = "upstream_read_to_end" /\ h.trace[i].ok) =>
            \E k \in (i + 1)..Len(h.trace) :
                /\ IsCall(h.trace[k], "client_write", 0, h.trace[i].data)
                /\ \A m \in 1..(k - 1) : h.trace[m].op # "client_write"

\* C4: the chunk writes to the client are exactly the non-zero bytes of each
\* chunk read, in order, for the chunks before the first one with no non-zero
\* byte; no read follows that chunk, the job ends there, and no zero byte is
\* written.
C4_StreamBodyForwardsNonZero ==
    LET reads == BodyReads
    IN  /\ BodyWrites = Forwarded(reads)
        /\ \A w \in 1..Len(BodyWrites) :
               \A i \in 1..Len(BodyWrites[w]) : BodyWrites[w][i] # 0
        /\ \A r \in 1..(Len(reads) - 1) : StripZeros(reads[r].data) # <<>>
        /\ (reads # <<>> /\ StripZeros(reads[Len(reads)].data) = <<>>) =>
               h.pc = "done" /\ h.result = "ok"
        /\ \A i \in 1..Len(h.trace) :
               (h.trace[i].op = "upstream_read" /\ StripZeros(h.trace[i].data) # <<>>) =>
                   /\ i < Len(h.trace)
                   /\ IsCall(h.trace[i + 1], "client_write", 0, StripZeros(h.trace[i].data))

C4_Witness ==
    /\ h.pc = "done"
    /\ h.result = "ok"
    /\ BodyWrites = << <<9, 7>>, <<7, 9>> >>
    /\ BodyReads[Len(BodyReads)].data = <<0, 0>>

\* C7, as claimed: each read of the body asks for at most the chunk_size of
\* the handler's configuration.
C7_Claim ==
    \A i \in 1..Len(BodyReads) : BodyReads[i].code <= h.config.chunk_size

\* C8, as claimed: a body read that fails does not end the loop: the error is
\* logged and the handler goes on to another read.
C8_Claim ==
    \A i \in 1..Len(h.trace) :
        (h.trace[i].op = "upstream_read" /\ ~h.trace[i].ok) =>
            \/ h.pc = "stream"
            \/ \E k \in (i + 1)..Len(h.trace) : h.trace[k].op = "upstream_read"

\* C9: when the read of the client's request fails the job ends with that
\* error: nothing is written to the client, the Host header is not rewritten
\* and no upstream connection is attempted.
C9_ReadFailureIsFatal ==
    \A i \in 1..Len(h.trace) :
        (h.trace[i].op = "client_read_to_end" /\ ~h.trace[i].ok) =>
            /\ h.pc = "done"
            /\ h.result = "err"
            /\ h.trace = <<Log("Info", "handle proxy"),
                           Ev("client_read_to_end", <<>>, 0, FALSE, "")>>
            /\ h.heads_n = <<>>

C9_Witness ==
    /\ h.pc = "done"
    /\ h.result = "err"
    /\ Len(h.trace) = 2
    /\ h.trace[2].op = "client_read_to_end"
    /\ ~h.trace[2].ok

-----------------------------------------------------------------------------
(* Claim about the dispatch loop (SpecDispatch) *)

InQueue(j) == \E i \in 1..Len(queue) : queue[i] = j

\* the jobs submitted that have not ended
Unfinished == {j \in 1..Len(jobs) : ~Finished(j)}

\* one job per accepted connection: submitted, or the one the loop is in
\* execute with; each job submitted is waiting for a worker, on a worker or
\* over, and a job on a worker is able to go on
C10_Jobs ==
    /\ Len(submitting) <= 1
    /\ Len(jobs) + Len(submitting) = accepted
    /\ \A j \in 1..Len(jobs) :
           Cardinality({x \in {"queued", "running", "finished"} :
               \/ x = "queued" /\ InQueue(j) /\ jobs[j].outcome = "queued"
               \/ x = "running" /\ j \in running /\ jobs[j].outcome = "running"
               \/ x = "finished" /\ Finished(j) /\ j \notin running /\ ~InQueue(j)}) = 1
    /\ \A i, k \in 1..Len(queue) : queue[i] = queue[k] => i = k
    /\ \A j \in running :
           \/ jobs[j].stream = "err"
           \/ jobs[j].hs.pc = "done"
           \/ HandlerSucc(jobs[j].hs, DispatchInputs) # {}

\* what holds of every step: it takes one connection, submits the one job of
\* a connection taken, or changes one job that has not ended, and no other
C10_Step ==
    /\ accepted' \in {accepted, accepted + 1}
    /\ Len(jobs') \in {Len(jobs), Len(jobs) + 1}
    /\ Len(jobs') + Len(submitting') = Len(jobs) + Len(submitting) + (accepted' - accepted)
    /\ \A j \in 1..Len(jobs) :
           jobs'[j] # jobs[j] =>
               /\ ~Finished(j)
               /\ Len(jobs') = Len(jobs)
               /\ submitting' = submitting
               /\ \A k \in 1..Len(jobs) : k # j => jobs'[k] = jobs[k]

-----------------------------------------------------------------------------
(* Claims about the header functions (SpecHeaders) *)

\* the index of the first input line that begins with "Host:", 0 when none
FirstHostLine ==
    LET at == {k \in 1..Len(inLines) : IsHostLine(inLines[k])}
    IN  IF at = {} THEN 0 ELSE CHOOSE k \in at : \A m \in at : k <= m

\* C5, as claimed: when one line of the input begins with "Host:",
\* change_host gives the input with that line replaced by "Host: <target>" and
\* every other line as it was.
C5_Claim ==
    (/\ fpc = "change_host"
     /\ Cardinality({k \in 1..Len(inLines) : IsHostLine(inLines[k])}) = 1) =>
        rewritten = JoinLines([k \in 1..Len(inLines) |->
                        IF k = FirstHostLine
                        THEN <<72, 111, 115, 116, 58, 32>> \o TARGET_ADDRESS
                        ELSE inLines[k]])

\* the spaces at the head of a text left out
RECURSIVE StripLeadingSpaces(_)
StripLeadingSpaces(t) ==
    IF t # <<>> /\ Head(t) = 32 THEN StripLeadingSpaces(Tail(t)) ELSE t

\* the header the claim gives a line: split at the first colon
ClaimedHeader(line) ==
    LET c == FindFrom(line, <<58>>, 1)
    IN  [name |-> Slice(line, 1, c - 1),
         value |-> ToLowercase(StripLeadingSpaces(Slice(line, c + 1, Len(line))))]

RECURSIVE ClaimedHeaders(_)
ClaimedHeaders(ls) ==
    IF ls = <<>> THEN <<>>
    ELSE IF Contains(Head(ls), <<58, 32>>)
    THEN <<ClaimedHeader(Head(ls))>> \o ClaimedHeaders(Tail(ls))
    ELSE ClaimedHeaders(Tail(ls))

\* C6, as claimed: from_string gives, for every line that holds ": ", a header
\* whose name is the text before the line's first colon and whose value is the
\* text after that colon without its leading spaces, in lower case.
C6_Claim ==
    fpc = "from_string" => parsed = ClaimedHeaders(inLines)

=============================================================================
